---- MODULE Spec2Model ----
(***************************************************************************)
(* Model of the position ledger of the commodity risk dashboard            *)
(* (src/src/portfolio_manager.py, class PortfolioManager).                  *)
(*                                                                         *)
(* Numbers: quantities and prices are integers (prices in minor units);    *)
(* every value the code obtains with "/" (avg_price, weights) is an exact  *)
(* rational [num, den] in lowest terms with den > 0, so that equality of   *)
(* two results is equality of the records.  Floating-point rounding is     *)
(* not modelled.                                                           *)
(***************************************************************************)
EXTENDS Integers, Sequences, FiniteSets, TLC

VARIABLES
    positions,       \* self.positions: commodity -> [quantity, avg_price, market_value]
    position_order,  \* insertion order of the keys of self.positions
    market_values,   \* self.market_values: commodity -> market value
    trade_history,   \* self.trade_history: list of trade records
    submitted,       \* history: the arguments of the add_position calls, in call order
    last_price,      \* history: the last price supplied for a commodity by update_market_values
    priced_quantity, \* history: the quantity a commodity had when it was last priced
    summary,         \* history: the snapshot returned by the latest get_portfolio_summary
                     \* call, None once the ledger has been written since
    threads,         \* concurrent callers: thread -> its call, its position in the
                     \* method and the method's local variables
    call,            \* the RiskCalculator / RiskMonitor call made: method and arguments
    result,          \* the value that call returned
    cached_returns,  \* the returns_data frame load_market_data handed to the
                     \* dashboard (src/main.py line 76), None when there is none
    alerts           \* self.alerts of the RiskMonitor

vars == <<positions, position_order, market_values, trade_history,
          submitted, last_price, priced_quantity, summary, threads, call, result,
          cached_returns, alerts>>

ledger == <<positions, position_order, market_values, trade_history>>

----------------------------------------------------------------------------
(* Bounds and input sets *)

MaxTrades == 2

\* the trades of the one-commodity specification
MaxBasisTrades == 3

BasisQuantities == {-2, -1, 2}

Commodities == {"Corn", "Wheat"}

\* trades of the ledger specification: longs, shorts and a zero-quantity trade
Quantities == {-2, -1, 0, 2}

Prices == {5, 6}

\* prices supplied to update_market_values
MarketPrices == {3, 7}

\* trades of the trade-history specification: also a negative price, and
\* trade dates given out of order
HistoryCommodities == {"Corn"}

HistoryQuantities == {-1, 0, 2}

HistoryPrices == {-8, 5}

Dates == {1, 2}

\* an optional value: << >> is Python's None, <<v>> is the value v
None == << >>

Some(v) == <<v>>

EmptyDict == [c \in {} |-> 0]

----------------------------------------------------------------------------
(* Exact rationals *)

Abs(x) == IF x < 0 THEN -x ELSE x

Max(S) == CHOOSE x \in S : \A y \in S : y <= x

RECURSIVE GCD(_, _)
GCD(a, b) == IF b = 0 THEN a ELSE GCD(b, a % b)

\* n / d for d # 0, in lowest terms with a positive denominator
Div(n, d) ==
    LET g == GCD(Abs(n), Abs(d))
        s == IF d < 0 THEN -1 ELSE 1
    IN  [num |-> (s * n) \div g, den |-> (s * d) \div g]

Zero == [num |-> 0, den |-> 1]

RatAdd(a, b) == Div(a.num * b.den + b.num * a.den, a.den * b.den)

RECURSIVE SumInts(_, _)
SumInts(f, S) ==
    IF S = {} THEN 0
    ELSE LET k == CHOOSE x \in S : TRUE IN f[k] + SumInts(f, S \ {k})

RECURSIVE SumRats(_, _)
SumRats(f, S) ==
    IF S = {} THEN Zero
    ELSE LET k == CHOOSE x \in S : TRUE IN RatAdd(f[k], SumRats(f, S \ {k}))

\* no RiskCalculator / RiskMonitor call has been made
NoCall == [op |-> ""]

\* the callers of the concurrent specification
Threads == {"T1", "T2"}

\* a caller that has not called yet
IdleThread ==
    [pc |-> "idle", op |-> "", commodity |-> "", quantity |-> 0, price |-> 0, trade_date |-> 0,
     current_prices |-> EmptyDict, old_quantity |-> 0, new_quantity |-> 0,
     new_avg_price |-> Zero, iter_size |-> 0, iter_index |-> 0, market_value |-> 0,
     total_value |-> 0, weights |-> EmptyDict, num_positions |-> 0,
     seen_positions |-> EmptyDict]

----------------------------------------------------------------------------
(* PortfolioManager *)

Init ==
    /\ positions = EmptyDict
    /\ position_order = << >>
    /\ market_values = EmptyDict
    /\ trade_history = << >>
    /\ submitted = << >>
    /\ last_price = EmptyDict
    /\ priced_quantity = EmptyDict
    /\ summary = None
    /\ threads = [t \in Threads |-> IdleThread]
    /\ call = NoCall
    /\ result = None
    /\ cached_returns = None
    /\ alerts = << >>

\* lines 20-25: the position a commodity has when add_position starts work on it
NewPosition == [quantity |-> 0, avg_price |-> Zero, market_value |-> 0]

EnsurePosition(pos, commodity) ==
    IF commodity \in DOMAIN pos THEN pos
    ELSE [c \in DOMAIN pos \cup {commodity} |->
             IF c = commodity THEN NewPosition ELSE pos[c]]

EnsureOrder(order, pos, commodity) ==
    IF commodity \in DOMAIN pos THEN order ELSE Append(order, commodity)

\* variant of new_avg_price: a reducing trade keeps the cost basis of the
\* position (average-cost accounting) instead of averaging the trade in
new_avg_price_cost_basis(old_quantity, old_avg_price, quantity, price) ==
    LET new_quantity == old_quantity + quantity
    IN  IF new_quantity = 0 THEN Zero
        ELSE IF old_quantity * quantity < 0 /\ Abs(quantity) < Abs(old_quantity)
             THEN old_avg_price
             ELSE Div(old_quantity * old_avg_price.num
                          + quantity * price * old_avg_price.den,
                      old_avg_price.den * new_quantity)

\* variant of new_avg_price: the position is carried at the price of its
\* latest trade
new_avg_price_last_trade(old_quantity, old_avg_price, quantity, price) ==
    IF old_quantity + quantity # 0 THEN Div(price, 1) ELSE Zero

\* variant of new_avg_price: a full close leaves the average price as it was
new_avg_price_no_reset(old_quantity, old_avg_price, quantity, price) ==
    LET new_quantity == old_quantity + quantity
    IN  IF new_quantity # 0
        THEN Div(old_quantity * old_avg_price.num + quantity * price * old_avg_price.den,
                 old_avg_price.den * new_quantity)
        ELSE old_avg_price

\* lines 31-35
new_avg_price(old_quantity, old_avg_price, quantity, price) ==
    LET new_quantity == old_quantity + quantity
    IN  IF new_quantity # 0
        THEN Div(old_quantity * old_avg_price.num + quantity * price * old_avg_price.den,
                 old_avg_price.den * new_quantity)
        ELSE Zero

\* variant of AddPositionPositions: the position record is rebuilt, which
\* resets its market_value
AddPositionPositionsRebuilt(pos, commodity, quantity, price) ==
    LET p0 == EnsurePosition(pos, commodity)
        old_quantity == p0[commodity].quantity
        old_avg_price == p0[commodity].avg_price
    IN  [p0 EXCEPT ![commodity] =
            [quantity |-> old_quantity + quantity,
             avg_price |-> new_avg_price(old_quantity, old_avg_price, quantity, price),
             market_value |-> 0]]

\* variant of AddPositionPositions: a position whose quantity comes to 0
\* is deleted from the mapping
AddPositionPositionsDropClosed(pos, commodity, quantity, price) ==
    LET p0 == EnsurePosition(pos, commodity)
        old_quantity == p0[commodity].quantity
        old_avg_price == p0[commodity].avg_price
        p1 == [p0 EXCEPT ![commodity].quantity = old_quantity + quantity,
                         ![commodity].avg_price =
                             new_avg_price(old_quantity, old_avg_price, quantity, price)]
    IN  [c \in {d \in DOMAIN p1 : p1[d].quantity # 0} |-> p1[c]]

\* lines 20-38: the positions mapping after add_position
AddPositionPositions(pos, commodity, quantity, price) ==
    LET p0 == EnsurePosition(pos, commodity)
        old_quantity == p0[commodity].quantity
        old_avg_price == p0[commodity].avg_price
    IN  [p0 EXCEPT ![commodity].quantity = old_quantity + quantity,
                   ![commodity].avg_price =
                       new_avg_price(old_quantity, old_avg_price, quantity, price)]

\* lines 41-47
TradeRecord(trade_date, commodity, quantity, price) ==
    [date |-> trade_date, commodity |-> commodity, quantity |-> quantity,
     price |-> price, trade_value |-> quantity * price]

\* variant of RecordTrade: the history is kept in date order
RecordTradeByDate(history, trade_date, commodity, quantity, price) ==
    LET n == Cardinality({i \in 1..Len(history) : history[i].date <= trade_date})
    IN  SubSeq(history, 1, n)
            \o <<TradeRecord(trade_date, commodity, quantity, price)>>
            \o SubSeq(history, n + 1, Len(history))

RecordTrade(history, trade_date, commodity, quantity, price) ==
    Append(history, TradeRecord(trade_date, commodity, quantity, price))

\* lines 17-18: datetime.now() is the reading `now` of the wall clock
TradeDate(trade_date, now) == IF trade_date = None THEN now ELSE trade_date[1]

\* lines 15-47: one call of add_position
AddPositionCall(commodity, quantity, price, trade_date) ==
    /\ positions' = AddPositionPositions(positions, commodity, quantity, price)
    /\ position_order' = EnsureOrder(position_order, positions, commodity)
    /\ trade_history' = RecordTrade(trade_history, trade_date, commodity, quantity, price)
    /\ submitted' = Append(submitted, [commodity |-> commodity, quantity |-> quantity,
                                       price |-> price, trade_date |-> trade_date])
    /\ summary' = None
    /\ UNCHANGED <<market_values, last_price, priced_quantity, threads, call, result,
                   cached_returns, alerts>>

\* a call while the history is short of MaxTrades records
add_position(commodity, quantity, price, trade_date) ==
    /\ Len(trade_history) < MaxTrades
    /\ AddPositionCall(commodity, quantity, price, trade_date)

\* lines 51-52: the commodities update_market_values writes
PricedBy(pos, current_prices) == DOMAIN pos \cap DOMAIN current_prices

\* variant of UpdatePositions: a missing price counts as price 0
UpdatePositionsDefaultZero(pos, current_prices) ==
    [c \in DOMAIN pos |->
        [pos[c] EXCEPT !.market_value =
            IF c \in DOMAIN current_prices THEN pos[c].quantity * current_prices[c] ELSE 0]]

\* lines 51-56
UpdatePositions(pos, current_prices) ==
    [c \in DOMAIN pos |->
        IF c \in PricedBy(pos, current_prices)
        THEN [pos[c] EXCEPT !.market_value = pos[c].quantity * current_prices[c]]
        ELSE pos[c]]

\* lines 51-57
UpdateMarketValuesDict(mv, pos, current_prices) ==
    [c \in DOMAIN mv \cup PricedBy(pos, current_prices) |->
        IF c \in PricedBy(pos, current_prices)
        THEN pos[c].quantity * current_prices[c]
        ELSE mv[c]]

update_market_values(current_prices) ==
    /\ positions' = UpdatePositions(positions, current_prices)
    /\ market_values' = UpdateMarketValuesDict(market_values, positions, current_prices)
    /\ last_price' = [c \in DOMAIN last_price \cup PricedBy(positions, current_prices) |->
                         IF c \in PricedBy(positions, current_prices)
                         THEN current_prices[c] ELSE last_price[c]]
    /\ priced_quantity' =
           [c \in DOMAIN priced_quantity \cup PricedBy(positions, current_prices) |->
                IF c \in PricedBy(positions, current_prices)
                THEN positions[c].quantity ELSE priced_quantity[c]]
    /\ summary' = None
    /\ UNCHANGED <<position_order, trade_history, submitted, threads, call, result,
                   cached_returns, alerts>>

\* variant of Snapshot: num_positions counts the closed positions too
SnapshotCountAll(pos, mv) ==
    LET total_value == SumInts(mv, DOMAIN mv)
    IN  [total_value |-> total_value,
         weights |-> [k \in DOMAIN mv |->
                         IF total_value # 0 THEN Div(mv[k], total_value) ELSE Zero],
         num_positions |-> Cardinality(DOMAIN pos)]

\* variant of Snapshot: weights are fractions of the gross exposure
SnapshotGrossWeights(pos, mv) ==
    LET total_value == SumInts(mv, DOMAIN mv)
        gross == SumInts([k \in DOMAIN mv |-> Abs(mv[k])], DOMAIN mv)
    IN  [total_value |-> total_value,
         weights |-> [k \in DOMAIN mv |->
                         IF total_value # 0 THEN Div(mv[k], gross) ELSE Zero],
         num_positions |-> Cardinality({c \in DOMAIN pos : pos[c].quantity # 0})]

\* lines 61-70; the returned 'positions' entry is the live self.positions
\* mapping itself, not a copy, and is not part of the value modelled here
Snapshot(pos, mv) ==
    LET total_value == SumInts(mv, DOMAIN mv)
    IN  [total_value |-> total_value,
         weights |-> [k \in DOMAIN mv |->
                         IF total_value # 0 THEN Div(mv[k], total_value) ELSE Zero],
         num_positions |-> Cardinality({c \in DOMAIN pos : pos[c].quantity # 0})]

\* variant of get_portfolio_summary: enters every position that was never
\* priced into market_values before the snapshot is taken
get_portfolio_summary_filling ==
    LET filled == [c \in DOMAIN positions |->
                      IF c \in DOMAIN market_values THEN market_values[c]
                      ELSE positions[c].market_value]
    IN  /\ market_values' = filled
        /\ summary' = Some(Snapshot(positions, filled))
        /\ UNCHANGED <<positions, position_order, trade_history,
                       submitted, last_price, priced_quantity, threads, call, result,
                       cached_returns, alerts>>

get_portfolio_summary ==
    /\ summary' = Some(Snapshot(positions, market_values))
    /\ UNCHANGED <<positions, position_order, market_values, trade_history,
                   submitted, last_price, priced_quantity, threads, call, result,
                   cached_returns, alerts>>

PriceMaps == UNION {[S -> MarketPrices] : S \in SUBSET Commodities}

AddStep ==
    \E commodity \in Commodities, quantity \in Quantities, price \in Prices,
       now \in {Max(Dates)} :
        add_position(commodity, quantity, price, TradeDate(None, now))

HistoryAddStep ==
    \E commodity \in HistoryCommodities, quantity \in HistoryQuantities,
       price \in HistoryPrices,
       trade_date \in {None} \cup {Some(d) : d \in Dates}, now \in Dates :
        add_position(commodity, quantity, price, TradeDate(trade_date, now))

UpdateStep == \E current_prices \in PriceMaps : update_market_values(current_prices)

SummaryStep == get_portfolio_summary

Next == AddStep \/ UpdateStep \/ SummaryStep

Spec == Init /\ [][Next]_vars

HistoryNext == HistoryAddStep \/ UpdateStep \/ SummaryStep

\* one commodity traded up to MaxBasisTrades times: long enough to open a
\* position, close it in full and open it again
BasisAddStep ==
    \E quantity \in BasisQuantities, price \in Prices, now \in {Max(Dates)} :
        /\ Len(trade_history) < MaxBasisTrades
        /\ AddPositionCall("Corn", quantity, price, TradeDate(None, now))

BasisUpdateStep ==
    \E current_prices \in [{"Corn"} -> MarketPrices] : update_market_values(current_prices)

BasisNext == BasisAddStep \/ BasisUpdateStep

BasisSpec == Init /\ [][BasisNext]_vars

HistorySpec == Init /\ [][HistoryNext]_vars

----------------------------------------------------------------------------
(* Two callers on one PortfolioManager.  The class holds no lock, so a      *)
(* method runs statement by statement and the other caller's statements    *)
(* may fall between any two of them.  The history variables of the         *)
(* sequential specifications are not maintained here.                      *)

ConcQuantities == {-1, 2}

ConcPrices == {6}

ConcPriceMaps == UNION {[S -> {Max(MarketPrices)}] : S \in SUBSET Commodities}

\* the ledger the callers meet: Corn was bought (2 @ 5) and priced at 3
StartPositions ==
    UpdatePositions(AddPositionPositions(EmptyDict, "Corn", 2, 5), [c \in {"Corn"} |-> 3])

StartMarketValues ==
    UpdateMarketValuesDict(EmptyDict, AddPositionPositions(EmptyDict, "Corn", 2, 5),
                           [c \in {"Corn"} |-> 3])

ConcInit ==
    /\ positions = StartPositions
    /\ position_order = EnsureOrder(<< >>, EmptyDict, "Corn")
    /\ market_values = StartMarketValues
    /\ trade_history = RecordTrade(<< >>, Max(Dates), "Corn", 2, 5)
    /\ submitted = << >>
    /\ last_price = EmptyDict
    /\ priced_quantity = EmptyDict
    /\ summary = None
    /\ threads = [t \in Threads |-> IdleThread]
    /\ call = NoCall
    /\ result = None
    /\ cached_returns = None
    /\ alerts = << >>

Goto(t, label) == threads' = [threads EXCEPT ![t].pc = label]

History == <<submitted, last_price, priced_quantity, summary, call, result,
             cached_returns, alerts>>

\* a caller enters add_position (lines 15-18)
CallAddPosition(t, commodity, quantity, price, trade_date) ==
    /\ threads[t].pc = "idle"
    /\ threads' = [threads EXCEPT ![t].pc = "ap_check",
                                  ![t].op = "add_position",
                                  ![t].commodity = commodity,
                                  ![t].quantity = quantity,
                                  ![t].price = price,
                                  ![t].trade_date = trade_date]
    /\ UNCHANGED <<ledger, History>>

\* line 20
ApCheck(t) ==
    /\ threads[t].pc = "ap_check"
    /\ Goto(t, IF threads[t].commodity \notin DOMAIN positions
               THEN "ap_create" ELSE "ap_read_quantity")
    /\ UNCHANGED <<ledger, History>>

\* lines 21-25: the key is bound to a fresh position, also when the other
\* caller has created it since line 20
ApCreate(t) ==
    LET c == threads[t].commodity
    IN  /\ threads[t].pc = "ap_create"
        /\ positions' = [k \in DOMAIN positions \cup {c} |->
                            IF k = c THEN NewPosition ELSE positions[k]]
        /\ position_order' = EnsureOrder(position_order, positions, c)
        /\ Goto(t, "ap_read_quantity")
        /\ UNCHANGED <<market_values, trade_history, History>>

\* line 28
ApReadQuantity(t) ==
    /\ threads[t].pc = "ap_read_quantity"
    /\ threads' = [threads EXCEPT
           ![t].pc = "ap_read_avg_price",
           ![t].old_quantity = positions[threads[t].commodity].quantity]
    /\ UNCHANGED <<ledger, History>>

\* lines 29-35
ApReadAvgPrice(t) ==
    LET th == threads[t]
        old_avg_price == positions[th.commodity].avg_price
    IN  /\ th.pc = "ap_read_avg_price"
        /\ threads' = [threads EXCEPT
               ![t].pc = "ap_write_quantity",
               ![t].new_quantity = th.old_quantity + th.quantity,
               ![t].new_avg_price =
                   new_avg_price(th.old_quantity, old_avg_price, th.quantity, th.price)]
        /\ UNCHANGED <<ledger, History>>

\* line 37
ApWriteQuantity(t) ==
    /\ threads[t].pc = "ap_write_quantity"
    /\ positions' = [positions EXCEPT
           ![threads[t].commodity].quantity = threads[t].new_quantity]
    /\ Goto(t, "ap_write_avg_price")
    /\ UNCHANGED <<position_order, market_values, trade_history, History>>

\* line 38
ApWriteAvgPrice(t) ==
    /\ threads[t].pc = "ap_write_avg_price"
    /\ positions' = [positions EXCEPT
           ![threads[t].commodity].avg_price = threads[t].new_avg_price]
    /\ Goto(t, "ap_record")
    /\ UNCHANGED <<position_order, market_values, trade_history, History>>

\* lines 41-47
ApRecord(t) ==
    LET th == threads[t]
    IN  /\ th.pc = "ap_record"
        /\ trade_history' = RecordTrade(trade_history, th.trade_date, th.commodity,
                                        th.quantity, th.price)
        /\ Goto(t, "done")
        /\ UNCHANGED <<positions, position_order, market_values, History>>

\* a caller enters update_market_values (line 49)
CallUpdateMarketValues(t, current_prices) ==
    /\ threads[t].pc = "idle"
    /\ threads' = [threads EXCEPT ![t].pc = "um_start",
                                  ![t].op = "update_market_values",
                                  ![t].current_prices = current_prices]
    /\ UNCHANGED <<ledger, History>>

\* line 51: the iterator over self.positions is created
UmStart(t) ==
    /\ threads[t].pc = "um_start"
    /\ threads' = [threads EXCEPT ![t].pc = "um_next",
                                  ![t].iter_size = Len(position_order),
                                  ![t].iter_index = 1]
    /\ UNCHANGED <<ledger, History>>

\* lines 51-52: the next key; the iterator raises RuntimeError when the
\* dictionary has changed size since the iterator was created
UmNext(t) ==
    LET th == threads[t]
    IN  /\ th.pc = "um_next"
        /\ IF Len(position_order) # th.iter_size
           THEN Goto(t, "raised")
           ELSE IF th.iter_index > th.iter_size
           THEN Goto(t, "done")
           ELSE LET c == position_order[th.iter_index]
                IN  IF c \in DOMAIN th.current_prices
                    THEN threads' = [threads EXCEPT ![t].pc = "um_read",
                                                    ![t].commodity = c]
                    ELSE threads' = [threads EXCEPT ![t].iter_index = th.iter_index + 1,
                                                    ![t].commodity = c]
        /\ UNCHANGED <<ledger, History>>

\* lines 53-55
UmRead(t) ==
    LET th == threads[t]
    IN  /\ th.pc = "um_read"
        /\ threads' = [threads EXCEPT
               ![t].pc = "um_write_position",
               ![t].market_value =
                   positions[th.commodity].quantity * th.current_prices[th.commodity]]
        /\ UNCHANGED <<ledger, History>>

\* line 56
UmWritePosition(t) ==
    /\ threads[t].pc = "um_write_position"
    /\ positions' = [positions EXCEPT
           ![threads[t].commodity].market_value = threads[t].market_value]
    /\ Goto(t, "um_write_market_values")
    /\ UNCHANGED <<position_order, market_values, trade_history, History>>

\* line 57
UmWriteMarketValues(t) ==
    LET th == threads[t]
    IN  /\ th.pc = "um_write_market_values"
        /\ market_values' = [k \in DOMAIN market_values \cup {th.commodity} |->
                                IF k = th.commodity THEN th.market_value
                                ELSE market_values[k]]
        /\ threads' = [threads EXCEPT ![t].pc = "um_next",
                                      ![t].iter_index = th.iter_index + 1]
        /\ UNCHANGED <<positions, position_order, trade_history, History>>

ConcCall ==
    \E t \in Threads :
        \/ \E commodity \in Commodities, quantity \in ConcQuantities,
              price \in ConcPrices :
               CallAddPosition(t, commodity, quantity, price, TradeDate(None, Max(Dates)))
        \/ \E current_prices \in ConcPriceMaps : CallUpdateMarketValues(t, current_prices)

ConcAddPosition ==
    \E t \in Threads :
        \/ ApCheck(t)
        \/ ApCreate(t)
        \/ ApReadQuantity(t)
        \/ ApReadAvgPrice(t)
        \/ ApWriteQuantity(t)
        \/ ApWriteAvgPrice(t)
        \/ ApRecord(t)

ConcUpdateMarketValues ==
    \E t \in Threads :
        \/ UmStart(t)
        \/ UmNext(t)
        \/ UmRead(t)
        \/ UmWritePosition(t)
        \/ UmWriteMarketValues(t)

ConcNext == ConcCall \/ ConcAddPosition \/ ConcUpdateMarketValues

ConcSpec == ConcInit /\ [][ConcNext]_vars

\* a caller enters get_portfolio_summary (line 59)
CallGetPortfolioSummary(t) ==
    /\ threads[t].pc = "idle"
    /\ threads' = [threads EXCEPT ![t].pc = "gs_total",
                                  ![t].op = "get_portfolio_summary"]
    /\ UNCHANGED <<ledger, History>>

\* line 61
GsTotal(t) ==
    /\ threads[t].pc = "gs_total"
    /\ threads' = [threads EXCEPT
           ![t].pc = "gs_weights",
           ![t].total_value = SumInts(market_values, DOMAIN market_values)]
    /\ UNCHANGED <<ledger, History>>

\* lines 62-63
GsWeights(t) ==
    LET total_value == threads[t].total_value
    IN  /\ threads[t].pc = "gs_weights"
        /\ threads' = [threads EXCEPT
               ![t].pc = "gs_return",
               ![t].weights =
                   [k \in DOMAIN market_values |->
                       IF total_value # 0 THEN Div(market_values[k], total_value)
                       ELSE Zero]]
        /\ UNCHANGED <<ledger, History>>

\* lines 65-70: 'positions' of the returned dict is self.positions itself; the
\* caller sees in it what the mapping holds when the call returns
GsReturn(t) ==
    /\ threads[t].pc = "gs_return"
    /\ threads' = [threads EXCEPT
           ![t].pc = "done",
           ![t].num_positions =
               Cardinality({c \in DOMAIN positions : positions[c].quantity # 0}),
           ![t].seen_positions = positions]
    /\ UNCHANGED <<ledger, History>>

\* lines 65-70: the dict a finished get_portfolio_summary call handed to
\* its caller t, as the caller reads it now.  total_value, weights and
\* num_positions were computed by the call; 'positions' is self.positions
\* itself (line 67), so it reads as the mapping stands at the time of reading
ReturnedSnapshot(t) ==
    [total_value |-> threads[t].total_value,
     positions |-> positions,
     weights |-> threads[t].weights,
     num_positions |-> threads[t].num_positions]

ConcGetPortfolioSummary ==
    \E t \in Threads :
        \/ CallGetPortfolioSummary(t)
        \/ GsTotal(t)
        \/ GsWeights(t)
        \/ GsReturn(t)

\* readers next to the writers
ReadNext == ConcNext \/ ConcGetPortfolioSummary

ReadSpec == ConcInit /\ [][ReadNext]_vars

----------------------------------------------------------------------------
(* RiskCalculator (src/src/risk_calculator.py).  A return is an exact       *)
(* rational; NaN is the record 0/0, which no comparison holds of.  A       *)
(* series is a sequence of returns; an argument that may be None is        *)
(* None or Some(series).                                                   *)

MaxObservations == 3

MaxDates == 2

NaN == [num |-> 0, den |-> 0]

IsNaN(a) == a.den = 0

RatOfInt(n) == [num |-> n, den |-> 1]

RatSub(a, b) == Div(a.num * b.den - b.num * a.den, a.den * b.den)

\* a * b, cancelling across the two fractions before multiplying
RatMul(a, b) ==
    LET g1 == GCD(Abs(a.num), b.den)
        g2 == GCD(Abs(b.num), a.den)
    IN  Div((a.num \div g1) * (b.num \div g2), (a.den \div g2) * (b.den \div g1))

RatLeq(a, b) == ~IsNaN(a) /\ ~IsNaN(b) /\ a.num * b.den <= b.num * a.den

RatLt(a, b) == ~IsNaN(a) /\ ~IsNaN(b) /\ a.num * b.den < b.num * a.den

RatAbs(a) == [num |-> Abs(a.num), den |-> a.den]

ReturnValues == {Div(n, 10) : n \in {-3, -1, 0, 2}}

ReturnSeries == UNION {[1..n -> ReturnValues] : n \in 0..MaxObservations}

ConfidenceLevels == {Div(1, 2), Div(9, 10), Div(95, 100), Div(99, 100)}

Methods == {"historical", "parametric", "monte_carlo", "bootstrap"}

\* what the normal quantile (parametric) or the simulated sample
\* (monte_carlo) yields for a sample with spread: not computed here
Estimates == {Div(-1, 4), Div(1, 20)}

RECURSIVE SumSeq(_)
SumSeq(seq) == IF seq = << >> THEN Zero ELSE RatAdd(seq[1], SumSeq(Tail(seq)))

\* np.mean
Mean(seq) == LET t == SumSeq(seq) IN Div(t.num, t.den * Len(seq))

RECURSIVE InsertSorted(_, _)
InsertSorted(x, seq) ==
    IF seq = << >> THEN <<x>>
    ELSE IF RatLeq(x, seq[1]) THEN <<x>> \o seq
         ELSE <<seq[1]>> \o InsertSorted(x, Tail(seq))

RECURSIVE Sorted(_)
Sorted(seq) == IF seq = << >> THEN << >> ELSE InsertSorted(seq[1], Sorted(Tail(seq)))

\* the interpolation applied to the sample in the order given
PercentileUnsorted(a, q) ==
    LET position == RatMul(RatOfInt(Len(a) - 1), Div(q.num, q.den * 100))
        below == position.num \div position.den
        fraction == Div(position.num % position.den, position.den)
    IN  IF fraction = Zero THEN a[below + 1]
        ELSE RatAdd(a[below + 1], RatMul(fraction, RatSub(a[below + 2], a[below + 1])))

\* np.percentile(a, q), 0 <= q <= 100, default (linear) interpolation: the
\* value at the position (n - 1) * q / 100 of the sorted sample
Percentile(a, q) ==
    LET sorted == Sorted(a)
        position == RatMul(RatOfInt(Len(a) - 1), Div(q.num, q.den * 100))
        below == position.num \div position.den
        fraction == Div(position.num % position.den, position.den)
    IN  IF fraction = Zero THEN sorted[below + 1]
        ELSE RatAdd(sorted[below + 1],
                    RatMul(fraction, RatSub(sorted[below + 2], sorted[below + 1])))

\* calculate_var without the len(returns) == 0 exit: the sample statistics
\* of an empty sample are nan
calculate_var_none_only(returns, confidence_level, method, estimate) ==
    IF returns = None THEN None
    ELSE IF Len(returns[1]) = 0 THEN Some(NaN)
    ELSE IF method = "historical"
    THEN Some(Percentile(returns[1],
                         RatMul(RatSub(RatOfInt(1), confidence_level), RatOfInt(100))))
    ELSE IF method = "parametric"
    THEN Some(IF Len(returns[1]) = 1 THEN NaN ELSE estimate)
    ELSE IF method = "monte_carlo"
    THEN Some(IF Len(returns[1]) = 1 THEN returns[1][1] ELSE estimate)
    ELSE None

\* lines 17-35; estimate stands for the normal quantile / the simulated
\* percentile of a sample with spread.  A single observation has sigma 0:
\* norm.ppf with scale 0 is nan, and every simulated return equals mu
calculate_var(returns, confidence_level, method, estimate) ==
    IF returns = None THEN None
    ELSE IF Len(returns[1]) = 0 THEN None
    ELSE IF method = "historical"
    THEN Some(Percentile(returns[1],
                         RatMul(RatSub(RatOfInt(1), confidence_level), RatOfInt(100))))
    ELSE IF method = "parametric"
    THEN Some(IF Len(returns[1]) = 1 THEN NaN ELSE estimate)
    ELSE IF method = "monte_carlo"
    THEN Some(IF Len(returns[1]) = 1 THEN returns[1][1] ELSE estimate)
    ELSE None

\* the observations at or above the threshold
TailObservationsAbove(series, var) == SelectSeq(series, LAMBDA r : RatLeq(var, r))

\* line 43: returns[returns <= var]
TailObservations(series, var) == SelectSeq(series, LAMBDA r : RatLeq(r, var))

\* lines 37-43
calculate_expected_shortfall(returns, confidence_level) ==
    IF returns = None THEN None
    ELSE IF Len(returns[1]) = 0 THEN None
    ELSE LET var == calculate_var(returns, confidence_level, "historical", NaN)
         IN  Some(Mean(TailObservations(returns[1], var[1])))

\* a DataFrame: index (dates), columns (names, in order) and, per column,
\* one value per date, NaN where the column has no observation
IsEmptyFrame(frame) == Len(frame.index) = 0 \/ Len(frame.columns) = 0

\* the row sums over the columns with a positive weight only
WeightedRowSumsLongOnly(frame, weights) ==
    [t \in 1..Len(frame.index) |->
        SumSeq([i \in 1..Len(frame.columns) |->
                   LET v == frame.data[frame.columns[i]][t]
                   IN  IF IsNaN(v) \/ ~RatLt(Zero, weights[i]) THEN Zero
                       ELSE RatMul(v, weights[i])])]

\* line 51: (returns_matrix * weights).sum(axis=1); weights[i] belongs to
\* column i, and sum skips NaN
WeightedRowSums(frame, weights) ==
    [t \in 1..Len(frame.index) |->
        SumSeq([i \in 1..Len(frame.columns) |->
                   LET v == frame.data[frame.columns[i]][t]
                   IN  IF IsNaN(v) THEN Zero ELSE RatMul(v, weights[i])])]

\* lines 45-52
calculate_portfolio_var(returns_matrix, weights, confidence_level) ==
    IF returns_matrix = None THEN None
    ELSE IF IsEmptyFrame(returns_matrix[1]) THEN None
    ELSE calculate_var(Some(WeightedRowSums(returns_matrix[1], weights)),
                       confidence_level, "historical", NaN)

\* lines 59-63
scenarios ==
    [s \in {"2008_crisis", "covid_2020", "ukraine_conflict"} |->
        IF s = "2008_crisis" THEN [shock |-> Div(-15, 100), volatility_multiplier |-> Div(5, 2)]
        ELSE IF s = "covid_2020" THEN [shock |-> Div(-25, 100), volatility_multiplier |-> RatOfInt(3)]
        ELSE [shock |-> Div(-12, 100), volatility_multiplier |-> RatOfInt(2)]]

\* an unknown id falling back to the severest scenario
ScenarioUsedSeverest(scenario_type) ==
    IF scenario_type \notin DOMAIN scenarios THEN "covid_2020" ELSE scenario_type

\* lines 65-66
ScenarioUsed(scenario_type) ==
    IF scenario_type \notin DOMAIN scenarios THEN "2008_crisis" ELSE scenario_type

\* the shocked series with the volatility multiplier applied as well
StressedReturnsReshaped(series, scenario) ==
    [i \in 1..Len(series) |->
        RatAdd(RatMul(series[i], scenario.volatility_multiplier), scenario.shock)]

\* line 69
StressedReturns(series, scenario) ==
    [i \in 1..Len(series) |-> RatAdd(series[i], scenario.shock)]

\* lines 54-81
stress_test(returns, scenario_type) ==
    IF returns = None THEN None
    ELSE IF Len(returns[1]) = 0 THEN None
    ELSE LET used == ScenarioUsed(scenario_type)
             scenario == scenarios[used]
             stressed_returns == StressedReturns(returns[1], scenario)
         IN  Some([scenario |-> used,
                   stressed_var_95 |-> Percentile(stressed_returns, RatOfInt(5)),
                   stressed_var_99 |-> Percentile(stressed_returns, RatOfInt(1)),
                   volatility_increase |-> scenario.volatility_multiplier])

\* the arguments drawn for returns: None, the empty series, or a series
ReturnsArguments == {None} \cup {Some(r) : r \in ReturnSeries}

ScenarioIds == DOMAIN scenarios \cup {"crisis", "invalid_scenario"}

FrameValues == {Div(-1, 10), Div(1, 5), NaN}

Frames ==
    UNION {UNION {{[index |-> [t \in 1..n |-> t], columns |-> cols,
                    data |-> d] :
                      d \in [{cols[i] : i \in 1..Len(cols)} -> [1..n -> FrameValues]]} :
                  cols \in {<< >>, <<"Corn">>, <<"Corn", "Wheat">>}} :
           n \in 0..MaxDates}

WeightVectors ==
    {<<Div(1, 2), Div(1, 2)>>, <<Div(3, 2), Div(-1, 2)>>, <<RatOfInt(1), Zero>>,
     <<RatOfInt(1)>>, <<Div(-1, 2)>>}

\* line 51 multiplies column i by weights[i]: the product is defined when
\* there is one weight per column (the call raises otherwise); a missing
\* or empty matrix returns at line 47 before the weights are used
WeightsFit(returns_matrix, weights) ==
    IF returns_matrix = None THEN TRUE
    ELSE IF IsEmptyFrame(returns_matrix[1]) THEN TRUE
    ELSE Len(weights) = Len(returns_matrix[1].columns)

LedgerState == <<positions, position_order, market_values, trade_history,
                 submitted, last_price, priced_quantity, summary, threads,
                 cached_returns, alerts>>

CalculateVar ==
    \E returns \in ReturnsArguments, confidence_level \in ConfidenceLevels,
       method \in Methods, estimate \in Estimates :
        /\ call = NoCall
        /\ call' = [op |-> "calculate_var", returns |-> returns,
                    confidence_level |-> confidence_level, method |-> method]
        /\ result' = calculate_var(returns, confidence_level, method, estimate)
        /\ UNCHANGED LedgerState

CalculateExpectedShortfall ==
    \E returns \in ReturnsArguments, confidence_level \in ConfidenceLevels :
        /\ call = NoCall
        /\ call' = [op |-> "calculate_expected_shortfall", returns |-> returns,
                    confidence_level |-> confidence_level]
        /\ result' = calculate_expected_shortfall(returns, confidence_level)
        /\ UNCHANGED LedgerState

CalculatePortfolioVar ==
    \E returns_matrix \in {None} \cup {Some(f) : f \in Frames},
       weights \in WeightVectors, confidence_level \in {Div(1, 2), Div(95, 100)} :
        /\ call = NoCall
        /\ WeightsFit(returns_matrix, weights)
        /\ call' = [op |-> "calculate_portfolio_var", returns_matrix |-> returns_matrix,
                    weights |-> weights, confidence_level |-> confidence_level]
        /\ result' = calculate_portfolio_var(returns_matrix, weights, confidence_level)
        /\ UNCHANGED LedgerState

StressTest ==
    \E returns \in ReturnsArguments, scenario_type \in ScenarioIds :
        /\ call = NoCall
        /\ call' = [op |-> "stress_test", returns |-> returns,
                    scenario_type |-> scenario_type]
        /\ result' = stress_test(returns, scenario_type)
        /\ UNCHANGED LedgerState

RiskNext ==
    \/ CalculateVar
    \/ CalculateExpectedShortfall
    \/ CalculatePortfolioVar
    \/ StressTest

RiskSpec == Init /\ [][RiskNext]_vars

----------------------------------------------------------------------------
(* RiskMonitor (src/src/risk_monitor.py) with the limits of                 *)
(* src/config/config.py.  A dict that is iterated is a sequence of its     *)
(* items in insertion order; limits and breach figures are rationals in    *)
(* USD millions.                                                           *)

Million == 1000000

VAR_LIMITS == [portfolio |-> RatOfInt(3), individual |-> Div(12, 10)]

POSITION_LIMITS ==
    ("Corn" :> 50) @@ ("Wheat" :> 40) @@ ("Soybeans" :> 60) @@ ("Sugar" :> 30) @@
    ("Coffee" :> 35) @@ ("Cotton" :> 25) @@ ("Cocoa" :> 20) @@ ("Rice" :> 15)

STRESS_TEST_SCENARIOS == <<"2008_crisis", "covid_2020", "ukraine_conflict">>

\* abs(value) >= limit
AtOrOverLimit(value, limit) == RatLeq(limit, RatAbs(value))

\* lines 22 and 31: abs(value) > limit
OverLimit(value, limit) == RatLt(limit, RatAbs(value))

\* lines 17-40; individual_vars is the sequence of the dict's items
check_var_limits(portfolio_var, individual_vars) ==
    LET over == SelectSeq(individual_vars,
                          LAMBDA item : OverLimit(item.var, VAR_LIMITS.individual))
    IN  (IF OverLimit(portfolio_var, VAR_LIMITS.portfolio)
         THEN <<[type |-> "Portfolio VaR Breach",
                 current |-> RatAbs(portfolio_var),
                 limit |-> VAR_LIMITS.portfolio,
                 severity |-> "HIGH"]>>
         ELSE << >>)
        \o [i \in 1..Len(over) |->
               [type |-> over[i].commodity \o " VaR Breach",
                current |-> RatAbs(over[i].var),
                limit |-> VAR_LIMITS.individual,
                severity |-> "MEDIUM"]]

\* the signed market value in USD millions
MarketValueSigned(position_data) ==
    Div(IF "market_value" \in DOMAIN position_data THEN position_data.market_value ELSE 0,
        Million)

\* line 47: abs(position_data.get('market_value', 0)) / 1_000_000
MarketValueMillions(position_data) ==
    Div(Abs(IF "market_value" \in DOMAIN position_data
            THEN position_data.market_value ELSE 0),
        Million)

\* line 48: POSITION_LIMITS.get(commodity, 0)
PositionLimit(commodity) ==
    RatOfInt(IF commodity \in DOMAIN POSITION_LIMITS THEN POSITION_LIMITS[commodity] ELSE 0)

\* lines 42-58; order is the insertion order of the positions mapping
check_position_limits(pos, order) ==
    LET over == SelectSeq(order,
                          LAMBDA c : RatLt(PositionLimit(c), MarketValueMillions(pos[c])))
    IN  [i \in 1..Len(over) |->
            [type |-> over[i] \o " Position Limit Breach",
             current |-> MarketValueMillions(pos[over[i]]),
             limit |-> PositionLimit(over[i]),
             severity |-> "HIGH"]]

\* float addition and multiplication: nan in, nan out
NanAdd(a, b) == IF IsNaN(a) \/ IsNaN(b) THEN NaN ELSE RatAdd(a, b)

NanMul(a, b) == IF IsNaN(a) \/ IsNaN(b) THEN NaN ELSE RatMul(a, b)

\* lines 78-79: the columns that enter the portfolio series
Included(returns_data, weights) ==
    SelectSeq(returns_data.columns,
              LAMBDA c : c \in DOMAIN weights /\ RatLt(Zero, weights[c]))

\* line 80, once per included column
RECURSIVE AddColumns(_, _, _, _)
AddColumns(series, columns, returns_data, weights) ==
    IF columns = << >> THEN series
    ELSE AddColumns([t \in DOMAIN series |->
                        NanAdd(series[t],
                               NanMul(returns_data.data[columns[1]][t], weights[columns[1]]))],
                    Tail(columns), returns_data, weights)

\* lines 75-80: one entry per entry of returns_data.index
PortfolioReturns(returns_data, weights) ==
    AddColumns([t \in 1..Len(returns_data.index) |-> Zero],
               Included(returns_data, weights), returns_data, weights)

\* Series.dropna(): the values, and the dates they belong to
DropNa(series) == SelectSeq(series, LAMBDA r : ~IsNaN(r))

DropNaIndex(index, series) ==
    LET kept == SelectSeq([t \in 1..Len(series) |-> t], LAMBDA t : ~IsNaN(series[t]))
    IN  [i \in 1..Len(kept) |-> index[kept[i]]]

\* `abs(fraction * value) if fraction else 0`
Dollar(fraction, value) ==
    IF fraction = Zero THEN Zero ELSE RatAbs(NanMul(fraction, value))

\* lines 85-102, less the volatility entry (a square root)
PortfolioMetrics(series, total_value) ==
    IF Len(series) = 0 THEN None
    ELSE LET var_95 == calculate_var(Some(series), Div(95, 100), "historical", NaN)[1]
             var_99 == calculate_var(Some(series), Div(99, 100), "historical", NaN)[1]
             es_95 == calculate_expected_shortfall(Some(series), Div(95, 100))[1]
             es_99 == calculate_expected_shortfall(Some(series), Div(99, 100))[1]
         IN  Some([var_95 |-> var_95,
                   var_99 |-> var_99,
                   var_95_dollar |-> Dollar(var_95, RatOfInt(total_value)),
                   var_99_dollar |-> Dollar(var_99, RatOfInt(total_value)),
                   expected_shortfall_95 |-> es_95,
                   expected_shortfall_99 |-> es_99,
                   expected_shortfall_95_dollar |-> Dollar(es_95, RatOfInt(total_value)),
                   expected_shortfall_99_dollar |-> Dollar(es_99, RatOfInt(total_value))])

\* lines 107-112: the columns that get individual metrics
WithIndividualMetrics(returns_data, pos) ==
    SelectSeq(returns_data.columns,
              LAMBDA c : /\ c \in DOMAIN pos
                         /\ pos[c].quantity # 0
                         /\ Len(DropNa(returns_data.data[c])) > 0
                         /\ Abs(pos[c].market_value) > 0)

\* lines 109-129, less the volatility entry
IndividualMetric(commodity_returns, position_value) ==
    LET var_95 == calculate_var(Some(commodity_returns), Div(95, 100), "historical", NaN)[1]
        var_99 == calculate_var(Some(commodity_returns), Div(99, 100), "historical", NaN)[1]
        es_95 == calculate_expected_shortfall(Some(commodity_returns), Div(95, 100))[1]
    IN  [var_95 |-> var_95,
         var_99 |-> var_99,
         var_95_dollar |-> Dollar(var_95, RatOfInt(position_value)),
         var_99_dollar |-> Dollar(var_99, RatOfInt(position_value)),
         expected_shortfall_95 |-> es_95,
         expected_shortfall_95_dollar |-> Dollar(es_95, RatOfInt(position_value)),
         position_value |-> position_value]

\* lines 105-129: the items of report['individual_metrics']
IndividualMetrics(returns_data, pos) ==
    LET columns == WithIndividualMetrics(returns_data, pos)
    IN  [i \in 1..Len(columns) |->
            [commodity |-> columns[i],
             metrics |-> IndividualMetric(DropNa(returns_data.data[columns[i]]),
                                          Abs(pos[columns[i]].market_value))]]

\* lines 132-139: the items of report['stress_test_results']
StressTestResults(series, total_value) ==
    IF Len(series) = 0 THEN << >>
    ELSE [i \in 1..Len(STRESS_TEST_SCENARIOS) |->
             LET stress_result == stress_test(Some(series), STRESS_TEST_SCENARIOS[i])[1]
             IN  [scenario |-> STRESS_TEST_SCENARIOS[i],
                  result |-> stress_result @@
                      [stressed_var_95_dollar |->
                           RatAbs(RatMul(stress_result.stressed_var_95, RatOfInt(total_value))),
                       stressed_var_99_dollar |->
                           RatAbs(RatMul(stress_result.stressed_var_99, RatOfInt(total_value)))]]]

InMillions(dollars) == Div(dollars.num, dollars.den * Million)

\* the breaches with the position-limit breaches ahead of the VaR breaches
LimitBreachesPositionsFirst(portfolio_metrics, individual_metrics, pos, order) ==
    check_position_limits(pos, order)
    \o (IF portfolio_metrics = None THEN << >>
        ELSE check_var_limits(InMillions(portfolio_metrics[1].var_95_dollar),
                              [i \in 1..Len(individual_metrics) |->
                                  [commodity |-> individual_metrics[i].commodity,
                                   var |-> InMillions(individual_metrics[i].metrics.var_95_dollar)]]))

\* lines 142-149
LimitBreaches(portfolio_metrics, individual_metrics, pos, order) ==
    (IF portfolio_metrics = None THEN << >>
     ELSE check_var_limits(InMillions(portfolio_metrics[1].var_95_dollar),
                           [i \in 1..Len(individual_metrics) |->
                               [commodity |-> individual_metrics[i].commodity,
                                var |-> InMillions(individual_metrics[i].metrics.var_95_dollar)]]))
    \o check_position_limits(pos, order)

\* lines 152-162
Recommendations(limit_breaches, individual_metrics, total_value) ==
    (IF Len(limit_breaches) > 0
     THEN <<"Immediate attention required due to limit breaches">> ELSE << >>)
    \o (IF Len(limit_breaches) > 3 THEN <<"Consider portfolio rebalancing">> ELSE << >>)
    \o (IF total_value > 0
        THEN LET high == SelectSeq(individual_metrics,
                             LAMBDA item : RatLt(RatOfInt(5),
                                                 InMillions(item.metrics.var_95_dollar)))
             IN  [i \in 1..Len(high) |-> "High risk concentration in " \o high[i].commodity]
        ELSE << >>)

\* lines 62-69; an empty dict is None here
EmptyReport(now) ==
    [timestamp |-> now,
     portfolio_metrics |-> None,
     individual_metrics |-> << >>,
     stress_test_results |-> << >>,
     limit_breaches |-> << >>,
     recommendations |-> << >>]

\* the exit taken for missing return data only
TakesEmptyExitNoData(returns_data, portfolio_summary) ==
    IF returns_data = None THEN TRUE ELSE IsEmptyFrame(returns_data[1])

\* line 71: returns_data is None or returns_data.empty or total_value == 0
TakesEmptyExit(returns_data, portfolio_summary) ==
    IF returns_data = None THEN TRUE
    ELSE IsEmptyFrame(returns_data[1]) \/ portfolio_summary.total_value = 0

\* lines 60-164.  returns_data is None or Some(frame); portfolio_data is
\* never read.  The value carries the report and, next to it, the local
\* portfolio_returns (None when the early exit is taken).
generate_risk_report(returns_data, pos, order, portfolio_summary, now) ==
    IF TakesEmptyExit(returns_data, portfolio_summary)
    THEN [report |-> EmptyReport(now), portfolio_returns |-> None]
    ELSE LET portfolio_returns == PortfolioReturns(returns_data[1], portfolio_summary.weights)
             total_value == portfolio_summary.total_value
             portfolio_metrics == PortfolioMetrics(DropNa(portfolio_returns), total_value)
             individual_metrics == IndividualMetrics(returns_data[1], pos)
             limit_breaches ==
                 LimitBreaches(portfolio_metrics, individual_metrics, pos, order)
         IN  [report |->
                 [timestamp |-> now,
                  portfolio_metrics |-> portfolio_metrics,
                  individual_metrics |-> individual_metrics,
                  stress_test_results |->
                      StressTestResults(DropNa(portfolio_returns), total_value),
                  limit_breaches |-> limit_breaches,
                  recommendations |->
                      Recommendations(limit_breaches, individual_metrics, total_value)],
              portfolio_returns |-> Some(portfolio_returns)]

\* inputs of the checks
VarValues ==
    {Div(-7, 2), RatOfInt(-3), Zero, Div(12, 10), Div(13, 10), RatOfInt(3), Div(7, 2)}

IndividualVars ==
    {<< >>}
    \cup {<<[commodity |-> c, var |-> v]>> : c \in {"Corn", "Wheat"}, v \in VarValues}
    \cup {<<[commodity |-> o[1], var |-> v], [commodity |-> o[2], var |-> w]>> :
             o \in {<<"Corn", "Wheat">>, <<"Wheat", "Corn">>},
             v \in VarValues, w \in VarValues}

\* Rice has a limit of 15 (USD millions), Oats has none
PositionData ==
    {[quantity |-> q, avg_price |-> RatOfInt(5), market_value |-> q * 5] :
         q \in {0, 1, -1, 3000000, -3000000, 3000001, -3000001}}
    \cup {[quantity |-> 2, avg_price |-> RatOfInt(5)]}

PositionMaps ==
    UNION {[{o[i] : i \in 1..Len(o)} -> PositionData] \X {o} :
              o \in {<< >>, <<"Rice">>, <<"Oats">>, <<"Rice", "Oats">>, <<"Oats", "Rice">>}}

CheckVarLimits ==
    \E portfolio_var \in VarValues, individual_vars \in IndividualVars :
        /\ call = NoCall
        /\ call' = [op |-> "check_var_limits", portfolio_var |-> portfolio_var,
                    individual_vars |-> individual_vars]
        /\ result' = check_var_limits(portfolio_var, individual_vars)
        /\ UNCHANGED LedgerState

CheckPositionLimits ==
    \E input \in PositionMaps :
        /\ call = NoCall
        /\ call' = [op |-> "check_position_limits", positions |-> input[1],
                    order |-> input[2]]
        /\ result' = check_position_limits(input[1], input[2])
        /\ UNCHANGED LedgerState

MonitorNext == CheckVarLimits \/ CheckPositionLimits

MonitorSpec == Init /\ [][MonitorNext]_vars

\* the return data of a report: two dates, Wheat without an observation
\* at the second; Wheat alone; Corn alone
ReportFrames ==
    {[index |-> <<1, 2>>, columns |-> <<"Corn", "Wheat">>,
      data |-> ("Corn" :> <<Div(-1, 10), Div(1, 5)>>) @@ ("Wheat" :> <<Div(1, 5), NaN>>)],
     [index |-> <<1, 2>>, columns |-> <<"Wheat">>,
      data |-> ("Wheat" :> <<Div(1, 5), Div(-1, 10)>>)],
     [index |-> <<1, 2>>, columns |-> <<"Corn">>,
      data |-> ("Corn" :> <<Div(-3, 10), Zero>>)]}

\* src/main.py lines 94-102: the report is generated from the snapshot just
\* taken and the live positions
ReportStep ==
    \E returns_data \in {None} \cup {Some(f) : f \in ReportFrames}, now \in {Max(Dates)} :
        /\ call = NoCall
        /\ summary # None
        /\ call' = [op |-> "generate_risk_report", returns_data |-> returns_data,
                    positions |-> positions, portfolio_summary |-> summary[1]]
        /\ result' = generate_risk_report(returns_data, positions, position_order,
                                          summary[1], now)
        /\ UNCHANGED LedgerState

ReportNext ==
    \/ call = NoCall /\ AddStep
    \/ call = NoCall /\ UpdateStep
    \/ call = NoCall /\ SummaryStep
    \/ ReportStep

ReportSpec == Init /\ [][ReportNext]_vars

----------------------------------------------------------------------------
(* The dashboard cycle of src/main.py with positions of tens of millions   *)
(* of dollars: trades are entered, prices refreshed, and every rerun takes *)
(* a snapshot and generates a report from the cached return data.          *)

DashboardQuantities == {-12000000, 2000000, 12000000}

DashboardPrices == {5}

\* one date and both columns at -0.1; one date, Wheat before Corn; two
\* dates with no Wheat observation at all; a frame without rows or columns
DashboardFrames ==
    {[index |-> <<1>>, columns |-> <<"Corn", "Wheat">>,
      data |-> ("Corn" :> <<Div(-1, 10)>>) @@ ("Wheat" :> <<Div(-1, 10)>>)],
     [index |-> <<1>>, columns |-> <<"Wheat", "Corn">>,
      data |-> ("Corn" :> <<Div(-1, 10)>>) @@ ("Wheat" :> <<Div(1, 5)>>)],
     [index |-> <<1, 2>>, columns |-> <<"Corn", "Wheat">>,
      data |-> ("Corn" :> <<Div(-1, 10), Div(-1, 10)>>) @@ ("Wheat" :> <<NaN, NaN>>)],
     [index |-> << >>, columns |-> << >>, data |-> EmptyDict]}

DashboardInit ==
    /\ positions = EmptyDict
    /\ position_order = << >>
    /\ market_values = EmptyDict
    /\ trade_history = << >>
    /\ submitted = << >>
    /\ last_price = EmptyDict
    /\ priced_quantity = EmptyDict
    /\ summary = None
    /\ threads = [t \in Threads |-> IdleThread]
    /\ call = NoCall
    /\ result = None
    /\ cached_returns \in {None} \cup {Some(f) : f \in DashboardFrames}
    /\ alerts = << >>

DashboardAddStep ==
    \E commodity \in Commodities, quantity \in DashboardQuantities,
       price \in DashboardPrices, now \in {Max(Dates)} :
        add_position(commodity, quantity, price, TradeDate(None, now))

DashboardUpdateStep ==
    \E current_prices \in UNION {[S -> DashboardPrices] : S \in SUBSET Commodities} :
        update_market_values(current_prices)

\* variant of DashboardReportStep: the monitor keeps the breaches it found
DashboardReportStepAlerting ==
    \E now \in Dates :
        /\ summary # None
        /\ call' = [op |-> "generate_risk_report", returns_data |-> cached_returns,
                    positions |-> positions, portfolio_summary |-> summary[1]]
        /\ result' = generate_risk_report(cached_returns, positions, position_order,
                                          summary[1], now)
        /\ alerts' = alerts \o result'.report.limit_breaches
        /\ UNCHANGED <<positions, position_order, market_values, trade_history,
                       submitted, last_price, priced_quantity, summary, threads,
                       cached_returns>>

\* src/main.py lines 94-102 with src/src/risk_monitor.py lines 60-164: the
\* report of the snapshot just taken, the live positions and the cached
\* return data; nothing but the report is written
DashboardReportStep ==
    \E now \in Dates :
        /\ summary # None
        /\ call' = [op |-> "generate_risk_report", returns_data |-> cached_returns,
                    positions |-> positions, portfolio_summary |-> summary[1]]
        /\ result' = generate_risk_report(cached_returns, positions, position_order,
                                          summary[1], now)
        /\ UNCHANGED LedgerState

DashboardNext ==
    \/ DashboardAddStep
    \/ DashboardUpdateStep
    \/ SummaryStep
    \/ DashboardReportStep

DashboardSpec == DashboardInit /\ [][DashboardNext]_vars

----------------------------------------------------------------------------
(* Properties of the ledger *)

Last(seq) == seq[Len(seq)]

\* a step of add_position: one more call has been submitted
IsAddStep == Len(submitted') = Len(submitted) + 1

QuantityOf(pos, c) == IF c \in DOMAIN pos THEN pos[c].quantity ELSE 0

AvgPriceOf(pos, c) == IF c \in DOMAIN pos THEN pos[c].avg_price ELSE Zero

\* the rational r equals n / d (d # 0), compared by cross-multiplication
RatEquals(r, n, d) == r.num * d = n * r.den

\* the trades submitted on commodity c, in call order
RECURSIVE TradesOn(_, _)
TradesOn(seq, c) ==
    IF seq = << >> THEN << >>
    ELSE IF seq[1].commodity = c THEN <<seq[1]>> \o TradesOn(Tail(seq), c)
         ELSE TradesOn(Tail(seq), c)

C1_EveryCall ==
    IsAddStep =>
        LET t == Last(submitted')
            old_quantity == QuantityOf(positions, t.commodity)
            old_avg_price == AvgPriceOf(positions, t.commodity)
            new == positions'[t.commodity]
        IN  /\ new.quantity = old_quantity + t.quantity
            /\ new.quantity # 0 =>
                  RatEquals(new.avg_price,
                            old_quantity * old_avg_price.num
                                + t.quantity * t.price * old_avg_price.den,
                            new.quantity * old_avg_price.den)

C1_TwoTrades ==
    \A c \in DOMAIN positions :
        LET ts == TradesOn(submitted, c)
        IN  (Len(ts) = 2 /\ ts[1].quantity + ts[2].quantity # 0) =>
                RatEquals(positions[c].avg_price,
                          ts[1].quantity * ts[1].price + ts[2].quantity * ts[2].price,
                          ts[1].quantity + ts[2].quantity)

IsPartialClose(ts) ==
    /\ Len(ts) = 2
    /\ ts[1].quantity * ts[2].quantity < 0
    /\ Abs(ts[2].quantity) < Abs(ts[1].quantity)

\* C2: after a partial close (q1 @ p1 on a fresh commodity, then q2 of the
\* opposite sign with |q2| < |q1|) the quantity is q1 + q2 and avg_price is
\* still p1, within 0.01.
C2_PartialCloseKeepsCostBasis ==
    \A c \in DOMAIN positions :
        LET ts == TradesOn(submitted, c)
            avg == positions[c].avg_price
        IN  IsPartialClose(ts) =>
                /\ positions[c].quantity = ts[1].quantity + ts[2].quantity
                /\ 100 * Abs(avg.num - ts[1].price * avg.den) < avg.den

\* C3: a position whose quantity is 0 has avg_price 0.
C3_FlatPositionHasZeroAvgPrice ==
    \A c \in DOMAIN positions :
        positions[c].quantity = 0 => positions[c].avg_price = Zero

\* a position that was open at a non-zero price has been closed in full
C3_Witness ==
    \E c \in DOMAIN positions :
        LET ts == TradesOn(submitted, c)
        IN  /\ Len(ts) = 2
            /\ ts[1].quantity # 0 /\ ts[1].price # 0 /\ ts[2].price # ts[1].price
            /\ ts[1].quantity + ts[2].quantity = 0
            /\ positions[c].quantity = 0

C4_HistoryIsSubmissions ==
    /\ Len(trade_history) = Len(submitted)
    /\ \A i \in 1..Len(submitted) :
           trade_history[i] = [date |-> submitted[i].trade_date,
                               commodity |-> submitted[i].commodity,
                               quantity |-> submitted[i].quantity,
                               price |-> submitted[i].price,
                               trade_value |-> submitted[i].quantity * submitted[i].price]

C4_AppendOnly ==
    /\ IsAddStep =>
          /\ Len(trade_history') = Len(trade_history) + 1
          /\ SubSeq(trade_history', 1, Len(trade_history)) = trade_history
    /\ ~IsAddStep => trade_history' = trade_history

\* C4: every add_position call appends exactly one record (date, commodity,
\* quantity, price, trade_value = quantity * price) at the end of trade_history
\* and changes no earlier record, so the i-th record is the i-th submitted
\* trade whatever the dates; no other operation changes the history.
C4_TradeHistoryAppendOnly == [][C4_AppendOnly]_vars /\ []C4_HistoryIsSubmissions

\* a zero-quantity trade was recorded after a trade with a later date and a
\* negative price
C4_Witness ==
    /\ Len(trade_history) = 2
    /\ trade_history[1].date > trade_history[2].date
    /\ trade_history[1].price < 0
    /\ trade_history[2].quantity = 0

C5_Frame(current_prices) ==
    /\ DOMAIN positions' = DOMAIN positions
    /\ \A c \in DOMAIN positions :
          /\ positions'[c].quantity = positions[c].quantity
          /\ positions'[c].avg_price = positions[c].avg_price
          /\ positions'[c].market_value =
                 IF c \in DOMAIN current_prices
                 THEN positions[c].quantity * current_prices[c]
                 ELSE positions[c].market_value
    /\ DOMAIN market_values' =
           DOMAIN market_values \cup (DOMAIN positions \cap DOMAIN current_prices)
    /\ \A c \in DOMAIN market_values' :
          market_values'[c] =
              IF c \in DOMAIN current_prices /\ c \in DOMAIN positions
              THEN positions[c].quantity * current_prices[c]
              ELSE market_values[c]
    /\ trade_history' = trade_history

\* C5: update_market_values(current_prices) sets market_value = quantity * price
\* for exactly the known commodities that are keys of current_prices, leaves the
\* market_value of every other known commodity as it was, creates no position,
\* and changes no quantity, avg_price or trade record.
C5_UpdateMarketValuesFrame ==
    [][\A current_prices \in PriceMaps :
          update_market_values(current_prices) => C5_Frame(current_prices)]_vars

\* two open positions, one priced and one never priced
C5_Witness ==
    /\ DOMAIN positions = Commodities
    /\ \A c \in Commodities : positions[c].quantity # 0
    /\ DOMAIN last_price = {"Corn"}
    /\ positions["Corn"].market_value = positions["Corn"].quantity * last_price["Corn"]
    /\ positions["Wheat"].market_value = 0

\* C6 as stated: a priced position has market_value = quantity * last price
\* supplied, also after further add_position calls; a never priced one has 0.
C6_MarketValueTracksQuantity ==
    \A c \in DOMAIN positions :
        positions[c].market_value =
            IF c \in DOMAIN last_price THEN positions[c].quantity * last_price[c] ELSE 0

C6_PricedInvariant ==
    \A c \in DOMAIN positions :
        positions[c].market_value =
            IF c \in DOMAIN last_price THEN priced_quantity[c] * last_price[c] ELSE 0

C6_AddKeepsMarketValue ==
    IsAddStep =>
        \A c \in DOMAIN positions : positions'[c].market_value = positions[c].market_value

\* C6 amended: a priced position has market_value = (the quantity it had when
\* it was last priced) * (the last price supplied); add_position never changes
\* a market_value; a never priced position has market_value 0.
C6_MarketValueAsOfLastPricing == [][C6_AddKeepsMarketValue]_vars /\ []C6_PricedInvariant

\* a priced position was traded afterwards: its market_value is stale
C6_Witness ==
    \E c \in DOMAIN last_price :
        /\ positions[c].quantity # priced_quantity[c]
        /\ positions[c].market_value # 0
        /\ positions[c].market_value # positions[c].quantity * last_price[c]

C7_SnapshotOf(s) ==
    /\ s.total_value = SumInts([c \in DOMAIN positions |-> positions[c].market_value],
                               DOMAIN positions)
    /\ s.num_positions = Cardinality({c \in DOMAIN positions : positions[c].quantity # 0})
    /\ DOMAIN s.weights \subseteq DOMAIN positions
    /\ \A c \in DOMAIN s.weights :
          IF s.total_value = 0 THEN s.weights[c] = Zero
          ELSE RatEquals(s.weights[c], positions[c].market_value, s.total_value)
    /\ positions = EmptyDict =>
          s.total_value = 0 /\ s.num_positions = 0 /\ s.weights = EmptyDict

\* C7: get_portfolio_summary returns total_value = the sum of market_value over
\* all positions, num_positions = the number of positions with quantity # 0 and
\* weights market_value / total_value (0 when total_value = 0); for the empty
\* ledger total_value 0, num_positions 0 and no weights.
C7_SummaryFields == summary # None => C7_SnapshotOf(summary[1])

\* a snapshot of a ledger with a closed position, a priced and an unpriced one
C7_Witness ==
    /\ summary # None
    /\ summary[1].total_value # 0
    /\ summary[1].num_positions = 1
    /\ DOMAIN positions = Commodities
    /\ DOMAIN summary[1].weights # Commodities

\* C8: when total_value # 0 the returned weights sum to 1 (weights are signed);
\* when total_value = 0 every weight is 0.
C8_WeightsSumToOne ==
    summary # None =>
        LET s == summary[1]
        IN  IF s.total_value # 0
            THEN SumRats(s.weights, DOMAIN s.weights) = [num |-> 1, den |-> 1]
            ELSE \A c \in DOMAIN s.weights : s.weights[c] = Zero

\* a snapshot with a negative weight and a weight above 1
C8_Witness ==
    /\ summary # None
    /\ summary[1].total_value # 0
    /\ \E c \in DOMAIN summary[1].weights : summary[1].weights[c].num < 0
    /\ \E c \in DOMAIN summary[1].weights :
          summary[1].weights[c].num > summary[1].weights[c].den

\* a step of get_portfolio_summary: a snapshot is held after the step
IsSummaryStep == summary' # None

\* C9: get_portfolio_summary changes no position, market value or trade
\* record, and a second call with no write in between returns the snapshot the
\* first call returned.
C9_SummaryIsPureRead ==
    [][IsSummaryStep =>
          /\ ledger' = ledger
          /\ summary # None => summary' = summary]_vars

\* a snapshot of a ledger with a never priced position is held
C9_Witness ==
    /\ summary # None
    /\ summary[1].total_value # 0
    /\ \E c \in DOMAIN positions : c \notin DOMAIN market_values

\* the positions one call after the other leaves, for the two callers' calls
SequentialOutcome(first, second) ==
    LET run(pos, t) ==
            IF threads[t].op = "add_position"
            THEN AddPositionPositions(pos, threads[t].commodity, threads[t].quantity,
                                      threads[t].price)
            ELSE UpdatePositions(pos, threads[t].current_prices)
    IN  run(run(StartPositions, first), second)

\* C10: concurrent add_position and update_market_values calls are serialized:
\* when both callers have returned, quantity, avg_price and market_value of
\* every position are those some sequential order of the two calls leaves.
C10_CallsAreSerialized ==
    (\A t \in Threads : threads[t].pc = "done") =>
        \/ positions = SequentialOutcome("T1", "T2")
        \/ positions = SequentialOutcome("T2", "T1")

\* the ledger (positions, market_values) the call of thread t leaves when it
\* runs alone on the ledger L
RunAlone(L, t) ==
    IF threads[t].op = "add_position"
    THEN [positions |-> AddPositionPositions(L.positions, threads[t].commodity,
                                             threads[t].quantity, threads[t].price),
          market_values |-> L.market_values]
    ELSE IF threads[t].op = "update_market_values"
    THEN [positions |-> UpdatePositions(L.positions, threads[t].current_prices),
          market_values |-> UpdateMarketValuesDict(L.market_values, L.positions,
                                                   threads[t].current_prices)]
    ELSE L

StartLedger == [positions |-> StartPositions, market_values |-> StartMarketValues]

\* the ledgers that exist between calls while thread t reads: before and
\* after the call of each other thread
LedgersBetweenCalls(t) ==
    {StartLedger} \cup {RunAlone(StartLedger, u) : u \in Threads \ {t}}

\* C11: a get_portfolio_summary call that runs next to add_position or
\* update_market_values never observes a ledger mid-mutation: what it returns
\* (total_value, weights, num_positions, positions) is the snapshot of a ledger
\* as it is between calls.
C11_ReaderSeesNoPartialWrite ==
    \A t \in Threads :
        (threads[t].op = "get_portfolio_summary" /\ threads[t].pc = "done") =>
            \E L \in LedgersBetweenCalls(t) :
                /\ threads[t].seen_positions = L.positions
                /\ threads[t].total_value = Snapshot(L.positions, L.market_values).total_value
                /\ threads[t].weights = Snapshot(L.positions, L.market_values).weights
                /\ threads[t].num_positions =
                       Snapshot(L.positions, L.market_values).num_positions

----------------------------------------------------------------------------
(* Properties of the risk calculator *)

NoData(returns) == returns = None \/ Len(returns[1]) = 0

\* C12: calculate_var, calculate_expected_shortfall and stress_test return
\* None when returns is None or has no observation, and
\* calculate_portfolio_var returns None when the matrix is None or empty,
\* whatever the confidence level, method, weights or scenario id.
C12_NoneOnNoData ==
    /\ (/\ call.op \in {"calculate_var", "calculate_expected_shortfall", "stress_test"}
        /\ NoData(call.returns)) => result = None
    /\ (/\ call.op = "calculate_portfolio_var"
        /\ (call.returns_matrix = None \/ IsEmptyFrame(call.returns_matrix[1])))
           => result = None

C12_Witness ==
    /\ call.op = "calculate_var"
    /\ call.returns = Some(<< >>)
    /\ call.method = "monte_carlo"
    /\ result = None

IsHistoricalVar ==
    /\ call.op = "calculate_var"
    /\ call.method = "historical"
    /\ ~NoData(call.returns)

HistoricalVar(returns, confidence_level) ==
    calculate_var(returns, confidence_level, "historical", NaN)[1]

\* C13: the historical VaR never rises with the confidence level: for the
\* same returns and c1 < c2, calculate_var at c2 is at most calculate_var
\* at c1.
C13_HistoricalVarMonotone ==
    IsHistoricalVar =>
        \A c \in ConfidenceLevels :
            /\ RatLt(call.confidence_level, c) =>
                   RatLeq(HistoricalVar(call.returns, c), result[1])
            /\ RatLt(c, call.confidence_level) =>
                   RatLeq(result[1], HistoricalVar(call.returns, c))

C13_Witness ==
    /\ IsHistoricalVar
    /\ call.returns = Some(<<Div(2, 10), Div(-3, 10), Zero>>)
    /\ call.confidence_level = Div(1, 2)
    /\ result = Some(Zero)
    /\ RatLt(HistoricalVar(call.returns, Div(99, 100)), result[1])

IsExpectedShortfall ==
    /\ call.op = "calculate_expected_shortfall"
    /\ ~NoData(call.returns)

\* the positions of the observations that are <= var
AtOrBelow(series, var) == {i \in 1..Len(series) : RatLeq(series[i], var)}

\* C14: for a non-empty series, calculate_expected_shortfall is the mean of
\* the observations that are <= the historical VaR at the same confidence
\* level; that set is never empty; the result is <= that VaR.
C14_ExpectedShortfallIsTailMean ==
    IsExpectedShortfall =>
        LET series == call.returns[1]
            var == HistoricalVar(call.returns, call.confidence_level)
            tail == AtOrBelow(series, var)
            total == SumRats([i \in tail |-> series[i]], tail)
        IN  /\ tail # {}
            /\ result = Some(Div(total.num, total.den * Cardinality(tail)))
            /\ RatLeq(result[1], var)

C14_Witness ==
    /\ IsExpectedShortfall
    /\ call.returns = Some(<<Div(2, 10), Div(-3, 10), Zero>>)
    /\ call.confidence_level = Div(1, 2)
    /\ result = Some(Div(-15, 100))
    /\ RatLt(result[1], HistoricalVar(call.returns, call.confidence_level))

IsStressTest ==
    /\ call.op = "stress_test"
    /\ ~NoData(call.returns)

\* C15: for a non-empty series and a configured scenario (each has a
\* negative shock), stressed_var_95 and stressed_var_99 are the 5th and 1st
\* percentile of returns + shock, hence the historical VaR at 0.95 and 0.99
\* moved by the shock and never above it; the volatility multiplier is
\* only echoed as volatility_increase.
C15_StressedVarBelowVar ==
    (IsStressTest /\ call.scenario_type \in DOMAIN scenarios) =>
        LET scenario == scenarios[call.scenario_type]
            var_95 == HistoricalVar(call.returns, Div(95, 100))
            var_99 == HistoricalVar(call.returns, Div(99, 100))
        IN  /\ RatLt(scenario.shock, Zero)
            /\ result[1].stressed_var_95 = RatAdd(var_95, scenario.shock)
            /\ result[1].stressed_var_99 = RatAdd(var_99, scenario.shock)
            /\ RatLeq(result[1].stressed_var_95, var_95)
            /\ RatLeq(result[1].stressed_var_99, var_99)
            /\ result[1].volatility_increase = scenario.volatility_multiplier

C15_Witness ==
    /\ IsStressTest
    /\ call.scenario_type = "covid_2020"
    /\ call.returns = Some(<<Div(2, 10), Div(-3, 10), Zero>>)
    /\ result[1].stressed_var_95 = Div(-52, 100)
    /\ result[1].volatility_increase = RatOfInt(3)

\* C16: stress_test with a scenario id outside the table never fails and
\* returns, field for field, what stress_test(returns, '2008_crisis')
\* returns: scenario '2008_crisis', shock -0.15, volatility_increase 2.5.
C16_UnknownScenarioFallsBack ==
    (IsStressTest /\ call.scenario_type \notin DOMAIN scenarios) =>
        /\ result = stress_test(call.returns, "2008_crisis")
        /\ result =
              Some([scenario |-> "2008_crisis",
                    stressed_var_95 |->
                        RatAdd(HistoricalVar(call.returns, Div(95, 100)), Div(-15, 100)),
                    stressed_var_99 |->
                        RatAdd(HistoricalVar(call.returns, Div(99, 100)), Div(-15, 100)),
                    volatility_increase |-> Div(5, 2)])

C16_Witness ==
    /\ IsStressTest
    /\ call.scenario_type = "invalid_scenario"
    /\ call.returns = Some(<<Div(2, 10), Div(-3, 10), Zero>>)
    /\ result[1].scenario = "2008_crisis"
    /\ result[1].stressed_var_95 = Div(-42, 100)

----------------------------------------------------------------------------
(* Properties of the risk monitor *)

\* a report that did not take the empty-report exit
IsFullReport ==
    /\ call.op = "generate_risk_report"
    /\ result.portfolio_returns # None

RECURSIVE NanSum(_, _)
NanSum(f, S) ==
    IF S = {} THEN Zero
    ELSE LET k == CHOOSE x \in S : TRUE IN NanAdd(f[k], NanSum(f, S \ {k}))

ColumnsOf(frame) == {frame.columns[i] : i \in 1..Len(frame.columns)}

\* the commodities with a return column, a weight, and that weight > 0
PositiveWeight(frame, weights) ==
    {c \in ColumnsOf(frame) : c \in DOMAIN weights /\ RatLt(Zero, weights[c])}

\* the sum of returns[c] * weights[c] over the commodities in S, per date
WeightedSum(frame, weights, S) ==
    [t \in 1..Len(frame.index) |->
        NanSum([c \in S |-> NanMul(frame.data[c][t], weights[c])], S)]

\* C17: in a report, the weighted portfolio series sums returns[c] *
\* weight[c] over exactly the commodities with a return column, a weight
\* and weight > 0; a position with non-positive market value never
\* contributes, and a long position with non-zero market value always
\* does, in every reachable ledger with total_value # 0.
C17_OnlyLongPositionsContribute ==
    IsFullReport =>
        LET frame == call.returns_data[1]
            weights == call.portfolio_summary.weights
            contributing == PositiveWeight(frame, weights)
        IN  /\ result.portfolio_returns = Some(WeightedSum(frame, weights, contributing))
            /\ \A c \in ColumnsOf(frame) \cap DOMAIN call.positions :
                   /\ call.positions[c].market_value <= 0 => c \notin contributing
                   /\ (/\ call.positions[c].quantity > 0
                       /\ call.positions[c].market_value # 0) => c \in contributing

\* the weighted sum in which a missing observation counts as 0
WeightedSumSkippingMissing(frame, weights, S) ==
    [t \in 1..Len(frame.index) |->
        NanSum([c \in S |-> IF IsNaN(frame.data[c][t]) THEN Zero
                            ELSE NanMul(frame.data[c][t], weights[c])], S)]

\* C18: the weighted portfolio series used for the portfolio metrics and
\* the stress tests has one entry per date of the return data; where an
\* included commodity has no observation at a date it contributes 0 and
\* the date stays, with the sum of the remaining terms.
C18_MissingObservationCountsAsZero ==
    IsFullReport =>
        LET frame == call.returns_data[1]
            weights == call.portfolio_summary.weights
            contributing == PositiveWeight(frame, weights)
            portfolio_returns == result.portfolio_returns[1]
        IN  /\ DropNaIndex(frame.index, portfolio_returns) = frame.index
            /\ DropNa(portfolio_returns) =
                   WeightedSumSkippingMissing(frame, weights, contributing)

\* the positions in breaches of the breaches of the given type
BreachesOfType(breaches, type) == {i \in 1..Len(breaches) : breaches[i].type = type}

\* C19: check_var_limits returns one HIGH breach with current =
\* |portfolio_var| and the portfolio limit iff |portfolio_var| > 3, one
\* MEDIUM breach per commodity iff its |var| > 1.2, nothing at equality
\* and nothing else.
C19_VarBreachesExactlyOverLimit ==
    call.op = "check_var_limits" =>
        LET items == call.individual_vars
            portfolio_over == RatLt(RatOfInt(3), RatAbs(call.portfolio_var))
            over == {i \in 1..Len(items) : RatLt(Div(12, 10), RatAbs(items[i].var))}
            portfolio_breaches == BreachesOfType(result, "Portfolio VaR Breach")
        IN  /\ Cardinality(portfolio_breaches) = IF portfolio_over THEN 1 ELSE 0
            /\ \A b \in portfolio_breaches :
                   result[b] = [type |-> "Portfolio VaR Breach",
                                current |-> RatAbs(call.portfolio_var),
                                limit |-> RatOfInt(3),
                                severity |-> "HIGH"]
            /\ \A i \in 1..Len(items) :
                   LET mine == BreachesOfType(result, items[i].commodity \o " VaR Breach")
                   IN  /\ Cardinality(mine) = IF i \in over THEN 1 ELSE 0
                       /\ \A b \in mine :
                              /\ result[b].current = RatAbs(items[i].var)
                              /\ result[b].limit = Div(12, 10)
                              /\ result[b].severity = "MEDIUM"
            /\ Len(result) = Cardinality(portfolio_breaches) + Cardinality(over)

C19_Witness ==
    /\ call.op = "check_var_limits"
    /\ call.portfolio_var = RatOfInt(-3)
    /\ call.individual_vars = <<[commodity |-> "Corn", var |-> Div(13, 10)],
                                [commodity |-> "Wheat", var |-> Div(12, 10)]>>
    /\ result = <<[type |-> "Corn VaR Breach", current |-> Div(13, 10),
                   limit |-> Div(12, 10), severity |-> "MEDIUM"]>>

\* the market value a position record carries, 0 when it carries none
CarriedMarketValue(position_data) ==
    IF "market_value" \in DOMAIN position_data THEN position_data.market_value ELSE 0

\* the configured limit in USD, 0 for a commodity without one
LimitInDollars(commodity) ==
    IF commodity \in DOMAIN POSITION_LIMITS THEN POSITION_LIMITS[commodity] * Million ELSE 0

\* C20: check_position_limits returns exactly one HIGH breach for each
\* commodity whose |market_value| / 1,000,000 is strictly above its
\* configured limit (0 when none is configured), long or short alike, and
\* none for a market value of 0.
C20_PositionBreachesExactlyOverLimit ==
    call.op = "check_position_limits" =>
        LET over == {c \in DOMAIN call.positions :
                        Abs(CarriedMarketValue(call.positions[c])) > LimitInDollars(c)}
        IN  /\ \A c \in DOMAIN call.positions :
                   LET mine == BreachesOfType(result, c \o " Position Limit Breach")
                   IN  /\ Cardinality(mine) = IF c \in over THEN 1 ELSE 0
                       /\ CarriedMarketValue(call.positions[c]) = 0 => mine = {}
                       /\ \A b \in mine :
                              /\ result[b].severity = "HIGH"
                              /\ result[b].current =
                                     Div(Abs(call.positions[c].market_value), Million)
                              /\ result[b].limit =
                                     Div(LimitInDollars(c), Million)
            /\ Len(result) = Cardinality(over)

C20_Witness ==
    /\ call.op = "check_position_limits"
    /\ call.order = <<"Rice", "Oats">>
    /\ CarriedMarketValue(call.positions["Rice"]) = -15000005
    /\ CarriedMarketValue(call.positions["Oats"]) = 0
    /\ result = <<[type |-> "Rice Position Limit Breach",
                   current |-> Div(15000005, Million),
                   limit |-> RatOfInt(15), severity |-> "HIGH"]>>

----------------------------------------------------------------------------
(* Properties of the report *)

IsReport == call.op = "generate_risk_report"

\* C21: generate_risk_report returns the empty report (empty
\* portfolio_metrics, individual_metrics, stress_test_results,
\* limit_breaches and recommendations, and a timestamp) whenever the return
\* data is None or empty or the snapshot's total_value is 0; no breach is
\* reported then, whatever the positions are.
C21_EmptyReportOnNoDataOrZeroTotal ==
    (/\ IsReport
     /\ \/ call.returns_data = None
        \/ Len(call.returns_data[1].index) = 0
        \/ Len(call.returns_data[1].columns) = 0
        \/ call.portfolio_summary.total_value = 0) =>
        /\ result.report.timestamp \in Dates
        /\ result.report = [timestamp |-> result.report.timestamp,
                            portfolio_metrics |-> None,
                            individual_metrics |-> << >>,
                            stress_test_results |-> << >>,
                            limit_breaches |-> << >>,
                            recommendations |-> << >>]

\* offsetting positions, each above its position limit
C21_Witness ==
    /\ IsReport
    /\ call.returns_data # None
    /\ ~IsEmptyFrame(call.returns_data[1])
    /\ call.portfolio_summary.total_value = 0
    /\ DOMAIN call.positions = {"Corn", "Wheat"}
    /\ call.positions["Corn"].market_value = 60000000
    /\ call.positions["Wheat"].market_value = -60000000
    /\ Len(check_position_limits(call.positions, position_order)) = 2
    /\ result.report.limit_breaches = << >>

\* the commodities report['individual_metrics'] has an entry for
WithEntry(report) ==
    {report.individual_metrics[i].commodity : i \in 1..Len(report.individual_metrics)}

\* |fraction| * value
Magnitude(fraction, value) == RatMul(RatAbs(fraction), RatOfInt(value))

\* C22: a report that does not take the empty-report exit has an
\* individual_metrics entry for exactly the commodities with a return
\* column holding at least one observation and a position with quantity
\* # 0; the dollar figures of an entry are |fraction| * |market_value|.
C22_IndividualMetricsForOpenPositions ==
    IsFullReport =>
        LET frame == call.returns_data[1]
            report == result.report
            observed == {c \in ColumnsOf(frame) :
                            \E t \in 1..Len(frame.index) : ~IsNaN(frame.data[c][t])}
            open == {c \in DOMAIN call.positions : call.positions[c].quantity # 0}
        IN  /\ WithEntry(report) = observed \cap open
            /\ \A i \in 1..Len(report.individual_metrics) :
                   LET m == report.individual_metrics[i].metrics
                       value == Abs(call.positions[report.individual_metrics[i].commodity]
                                        .market_value)
                   IN  /\ m.var_95_dollar = Magnitude(m.var_95, value)
                       /\ m.var_99_dollar = Magnitude(m.var_99, value)
                       /\ m.expected_shortfall_95_dollar =
                              Magnitude(m.expected_shortfall_95, value)

\* the call is generate_risk_report and did not take the exit of line 71
IsNonEmptyReport ==
    /\ IsReport
    /\ ~TakesEmptyExit(call.returns_data, call.portfolio_summary)

\* the entries of a sequence, as a set
Range(seq) == {seq[i] : i \in 1..Len(seq)}

\* the commodities whose individual var_95_dollar is above 5,000,000
Concentrated(report) ==
    SelectSeq(report.individual_metrics,
              LAMBDA item : RatLt(RatOfInt(5 * Million), item.metrics.var_95_dollar))

\* C23: in every report that does not take the empty-report exit, whatever
\* the sign of total_value, recommendations holds 'Immediate attention
\* required due to limit breaches' exactly when limit_breaches is
\* non-empty, then 'Consider portfolio rebalancing' exactly when there are
\* more than 3 breaches, then 'High risk concentration in <commodity>' for
\* exactly the commodities with var_95_dollar above 5,000,000.
C23_RecommendationsFollowTheRules ==
    IsNonEmptyReport =>
        LET report == result.report
            high == Concentrated(report)
        IN  report.recommendations =
                (IF report.limit_breaches # << >>
                 THEN <<"Immediate attention required due to limit breaches">>
                 ELSE << >>)
                \o (IF Len(report.limit_breaches) > 3
                    THEN <<"Consider portfolio rebalancing">> ELSE << >>)
                \o [i \in 1..Len(high) |->
                       "High risk concentration in " \o high[i].commodity]

\* what a report cycle is given and what the monitor keeps
ReportInputs ==
    <<positions, position_order, market_values, trade_history, summary,
      cached_returns, alerts>>

\* a report with its timestamp blanked
WithoutTimestamp(report) == [report EXCEPT !.timestamp = 0]

\* C24: a report cycle changes nothing but the report it returns: the
\* positions, the snapshot, the return data and the monitor's alerts are
\* as before; a report repeated on the same inputs differs from the one
\* before it in its timestamp only.
C24_ReportCycleIsSideEffectFree ==
    [][(call' # call \/ result' # result) =>
          /\ call'.op = "generate_risk_report"
          /\ UNCHANGED ReportInputs
          /\ (call' = call =>
                 /\ WithoutTimestamp(result'.report) = WithoutTimestamp(result.report)
                 /\ result'.portfolio_returns = result.portfolio_returns)]_vars

\* a report with breaches has been made of the ledger as it stands; the
\* monitor has recorded nothing
C24_Witness ==
    /\ IsNonEmptyReport
    /\ result.report.limit_breaches # << >>
    /\ call.positions = positions
    /\ summary = Some(call.portfolio_summary)
    /\ call.returns_data = cached_returns
    /\ alerts = << >>

\* the call is calculate_var, by a supported method, of one observation
IsVarOfSingleObservation ==
    /\ call.op = "calculate_var"
    /\ call.method \in {"historical", "parametric", "monte_carlo"}
    /\ call.returns # None
    /\ Len(call.returns[1]) = 1

\* C25: calculate_var of a series holding the single observation x is x,
\* for every confidence level and each of the methods historical,
\* parametric and monte_carlo.
C25_SingleObservationIsItsOwnVar ==
    IsVarOfSingleObservation => result = Some(call.returns[1][1])

\* the call is calculate_portfolio_var of a matrix with rows and columns
IsPortfolioVar ==
    /\ call.op = "calculate_portfolio_var"
    /\ call.returns_matrix # None
    /\ ~IsEmptyFrame(call.returns_matrix[1])

\* returns[t][column] * weight[column] summed over the first n columns,
\* whatever the sign of the weight; a missing observation adds nothing
RECURSIVE SignedWeightedSum(_, _, _, _)
SignedWeightedSum(frame, weights, t, n) ==
    IF n = 0 THEN Zero
    ELSE LET v == frame.data[frame.columns[n]][t]
             rest == SignedWeightedSum(frame, weights, t, n - 1)
         IN  IF IsNaN(v) THEN rest ELSE RatAdd(rest, RatMul(v, weights[n]))

\* C26: calculate_portfolio_var of a non-empty returns matrix is the
\* historical calculate_var, at the same confidence level, of the series
\* whose value at each date is the signed weighted sum over all columns;
\* negative and zero weights are applied as given.
C26_PortfolioVarOfSignedWeightedSum ==
    IsPortfolioVar =>
        LET frame == call.returns_matrix[1]
            series == [t \in 1..Len(frame.index) |->
                          SignedWeightedSum(frame, call.weights, t, Len(frame.columns))]
        IN  result = calculate_var(Some(series), call.confidence_level, "historical", NaN)

\* a column with a negative weight moved the result: Corn 0.2 at weight
\* 3/2 and Wheat 0.2 at weight -1/2 give 0.2
C26_Witness ==
    /\ IsPortfolioVar
    /\ call.weights = <<Div(3, 2), Div(-1, 2)>>
    /\ call.returns_matrix[1].columns = <<"Corn", "Wheat">>
    /\ call.returns_matrix[1].data = [Corn |-> <<Div(1, 5)>>, Wheat |-> <<Div(1, 5)>>]
    /\ result = Some(Div(1, 5))

\* the type of each entry of a breach list, in order
BreachTypes(breaches) == [i \in 1..Len(breaches) |-> breaches[i].type]

\* every limit a report can find breached, in the order the inputs give:
\* the portfolio limit, one individual limit per column of the return
\* data, one position limit per position in insertion order
LimitsInInputOrder(returns_data, order) ==
    <<"Portfolio VaR Breach">>
    \o (IF returns_data = None THEN << >>
        ELSE [i \in 1..Len(returns_data[1].columns) |->
                 returns_data[1].columns[i] \o " VaR Breach"])
    \o [i \in 1..Len(order) |-> order[i] \o " Position Limit Breach"]

\* C27: a report's limit_breaches are in input order, not in order of
\* severity: the portfolio VaR breach first, then the individual VaR
\* breaches in the column order of the return data, then the position
\* limit breaches in the insertion order of the positions; each breached
\* limit appears once, so there are at most 1 + (entries of
\* individual_metrics) + (positions) breaches.
C27_BreachesInInputOrder ==
    IsReport =>
        LET breaches == result.report.limit_breaches
            types == BreachTypes(breaches)
        IN  /\ types = SelectSeq(LimitsInInputOrder(call.returns_data, position_order),
                                 LAMBDA limit : limit \in Range(types))
            /\ Len(breaches) <= 1 + Len(result.report.individual_metrics)
                                  + Cardinality(DOMAIN call.positions)

\* columns Wheat, Corn and positions Corn, Wheat: the two MEDIUM entries
\* follow the column order and precede the two HIGH position entries
C27_Witness ==
    /\ IsReport
    /\ position_order = <<"Corn", "Wheat">>
    /\ BreachTypes(result.report.limit_breaches) =
           <<"Portfolio VaR Breach", "Wheat VaR Breach", "Corn VaR Breach",
             "Corn Position Limit Breach", "Wheat Position Limit Breach">>
    /\ result.report.limit_breaches[3].severity = "MEDIUM"
    /\ result.report.limit_breaches[4].severity = "HIGH"

\* the sum of the quantity fields of a sequence of trade records
TradedQuantity(trades) ==
    SumInts([i \in 1..Len(trades) |-> trades[i].quantity], 1..Len(trades))

\* the positions are those of the traded commodities, each with the
\* quantity its trades add up to
C28_QuantitiesAreTradeSums ==
    /\ DOMAIN positions = {trade_history[i].commodity : i \in 1..Len(trade_history)}
    /\ \A c \in DOMAIN positions :
           positions[c].quantity = TradedQuantity(TradesOn(trade_history, c))

\* no step takes a commodity out of the positions
C28_NoPositionRemoved == DOMAIN positions \subseteq DOMAIN positions'

\* C28: quantity conservation.  In every reachable ledger state the
\* commodities with a position are the commodities appearing in
\* trade_history, each position's quantity is the sum of the quantity
\* fields of the trades on its commodity, and no position is ever removed:
\* a closed position stays, with quantity 0.
C28_QuantityConservation ==
    []C28_QuantitiesAreTradeSums /\ [][C28_NoPositionRemoved]_vars

\* Corn was bought (2) and closed in full (-2): the position is still
\* there, with quantity 0
C28_Witness ==
    /\ Len(trade_history) = 2
    /\ trade_history[1].commodity = "Corn" /\ trade_history[1].quantity = 2
    /\ trade_history[2].commodity = "Corn" /\ trade_history[2].quantity = -2
    /\ "Corn" \in DOMAIN positions
    /\ positions["Corn"].quantity = 0

\* how many of the trades had been made when the quantity they add up to
\* was last 0: 0 when it never was after the start
LastFlat(trades) ==
    Max({k \in 0..Len(trades) : TradedQuantity(SubSeq(trades, 1, k)) = 0})

\* the trades made since the quantity was last 0
OpenTrades(trades) == SubSeq(trades, LastFlat(trades) + 1, Len(trades))

TradedValue(trades) ==
    SumInts([i \in 1..Len(trades) |-> trades[i].trade_value], 1..Len(trades))

HoldsSnapshot(t) ==
    /\ threads[t].pc = "done"
    /\ threads[t].op = "get_portfolio_summary"

\* C30: a snapshot returned by get_portfolio_summary is a value fixed at
\* the time of the call: no later add_position or update_market_values
\* changes any of its fields total_value, weights, num_positions and
\* positions.
C30_ReturnedSnapshotIsFixed ==
    [][\A t \in Threads :
          HoldsSnapshot(t) => ReturnedSnapshot(t)' = ReturnedSnapshot(t)]_vars

====
